---- MODULE Spec2Model ----
(***************************************************************************)
(* Akumuli block store (libakumuli/storage_engine/blockstore.cpp).         *)
(*                                                                         *)
(* FixedSizeFileStorage is a ring of fixed-capacity volumes described by a *)
(* meta-volume.  A logical address is the 64-bit value                     *)
(* (generation << 32) | slot.  32-bit quantities are kept at their real    *)
(* width: a u32 is a pair <<lo, hi>> of 16-bit limbs and a u64 is a tuple  *)
(* of four limbs (least significant first), so that the generation counter *)
(* wraps exactly where the C++ one does.                                   *)
(*                                                                         *)
(* Volume and MetaVolume (volume.cpp) are modelled from their description  *)
(* in the specification: a volume is an array of `file_size` pages with an *)
(* append cursor `write_pos`; the meta-volume holds capacity, nblocks and  *)
(* generation per volume index.                                            *)
(***************************************************************************)
EXTENDS Integers, Sequences, FiniteSets, TLC

\* ---------------------------------------------------------------- bounds
\* Largest number of volumes of a store.
MaxVolumes == 2
\* Largest capacity (in blocks) of one volume.
MaxCapacity == 2
\* Number of append_block calls made after the store is opened.
MaxAppends == 4

\* ------------------------------------------------------------- constants
AKU_SUCCESS   == "AKU_SUCCESS"
AKU_EBAD_ARG  == "AKU_EBAD_ARG"
AKU_EOVERFLOW == "AKU_EOVERFLOW"
AKU_EIO       == "AKU_EIO"

\* One 16-bit limb of a fixed width integer.
Limb == 65536

\* ------------------------------------------------------ u32 / u64 values
\* A small natural number as u32.
U32(n) == <<n % Limb, (n \div Limb) % Limb>>

\* u32 + n (mod 2^32) for a small natural n, as `current_gen_ += size`.
U32Add(a, n) ==
    LET lo == a[1] + n
        hi == a[2] + (lo \div Limb)
    IN  <<lo % Limb, hi % Limb>>

\* u32 % m for a small positive m, as `gen % volumes_.size()`.
U32Mod(a, m) == (((a[2] % m) * (Limb % m)) + (a[1] % m)) % m

\* a < b on u32.
U32Less(a, b) == a[2] < b[2] \/ (a[2] = b[2] /\ a[1] < b[1])

\* Zero extension of a u32 (BlockAddr) to a u64 (LogicAddr).
U64FromU32(a) == <<a[1], a[2], 0, 0>>

\* Block::Block() leaves the address unassigned.
EMPTY_ADDR == <<Limb - 1, Limb - 1, Limb - 1, Limb - 1>>

\* addr >> 32
extract_gen(addr) == <<addr[3], addr[4]>>

\* addr & 0xFFFFFFFF
extract_vol(addr) == <<addr[1], addr[2]>>

\* static_cast<u64>(gen) << 32 | addr
make_logic(gen, addr) == <<addr[1], addr[2], gen[1], gen[2]>>

\* ------------------------------------------------------------------ state
VARIABLES
    meta,            \* MetaVolume: index -> [capacity, nblocks, generation]
    volumes,         \* volumes_: index -> [file_size, write_pos, pages]
    current_volume,  \* current_volume_
    current_gen,     \* current_gen_
    dirty,           \* dirty_
    history,         \* completed append_block calls, in completion order
    recycled,        \* addresses whose volume advance_volume has reset since
    ret,             \* result of the last completed operation
    ncalls,          \* append_block calls made since the store was opened
    reopened,        \* the store was closed and opened again
    apc,             \* position of the thread inside append_block
    frame,           \* locals of the append_block call in progress
    spc,             \* position of the thread inside get_stats
    six,             \* get_stats: loop index ix
    stats,           \* get_stats: the BlockStoreStats being accumulated
    quiescent,       \* totals of the states between appends seen by get_stats
    v1,              \* a Base128StreamWriter and a Base128StreamReader on one buffer
    v2,              \* a Base128StreamWriterV2 and a Base128StreamReaderV2 on one buffer
    chain,           \* DeltaRLEWriter and DeltaRLEReader on one buffer
    cache,           \* a BlockCache
    mem              \* a MemStore

store_vars == <<meta, volumes, current_volume, current_gen, dirty>>
ghost_vars == <<history, recycled, ret, ncalls, reopened>>
conc_vars  == <<apc, frame, spc, six, stats, quiescent>>
other_vars == <<v1, v2, chain, cache, mem>>
file_vars  == <<store_vars, ghost_vars, conc_vars>>
vars == <<store_vars, ghost_vars, conc_vars, other_vars>>

\* The store as one value, for the operators below.
Store == [meta |-> meta, volumes |-> volumes, current_volume |-> current_volume,
          current_gen |-> current_gen, dirty |-> dirty]

\* volumes_.size()
NVolumes(S) == Cardinality(DOMAIN S.volumes)

\* ------------------------------------------------- Volume and MetaVolume
\* Volume::create_new: a zero-filled file of `capacity` pages.
Volume_create_new(capacity) ==
    [file_size |-> capacity, write_pos |-> 0, pages |-> [p \in 0..(capacity - 1) |-> 0]]

\* Volume::open_existing(path, nblocks): the cursor continues at nblocks.
Volume_open_existing(vol, nblocks) == [vol EXCEPT !.write_pos = nblocks]

\* Volume::append_block: Overflow when full, an I/O failure is a status.
Volume_append_block(vol, data, io_ok) ==
    IF vol.write_pos >= vol.file_size
    THEN [status |-> AKU_EOVERFLOW, addr |-> 0, vol |-> vol]
    ELSE IF ~io_ok
    THEN [status |-> AKU_EIO, addr |-> 0, vol |-> vol]
    ELSE [status |-> AKU_SUCCESS, addr |-> vol.write_pos,
          vol |-> [vol EXCEPT !.pages[vol.write_pos] = data, !.write_pos = @ + 1]]

\* Volume::read_block: the page at slot ix, or an I/O failure.
Volume_read_block(vol, ix, io_ok) ==
    IF ~io_ok \/ ix \notin DOMAIN vol.pages
    THEN [status |-> AKU_EIO, data |-> 0]
    ELSE [status |-> AKU_SUCCESS, data |-> vol.pages[ix]]

\* Volume::reset
Volume_reset(vol) == [vol EXCEPT !.write_pos = 0]

\* MetaVolume::create_new: volume i starts empty in generation i.
MetaVolume_create_new(caps) ==
    [i \in DOMAIN caps |-> [capacity |-> caps[i], nblocks |-> 0, generation |-> U32(i)]]

\* MetaVolume::get_generation
MetaVolume_get_generation(m, i) ==
    IF i \in DOMAIN m THEN [status |-> AKU_SUCCESS, value |-> m[i].generation]
                      ELSE [status |-> AKU_EBAD_ARG, value |-> U32(0)]

\* MetaVolume::get_nblocks
MetaVolume_get_nblocks(m, i) ==
    IF i \in DOMAIN m THEN [status |-> AKU_SUCCESS, value |-> m[i].nblocks]
                      ELSE [status |-> AKU_EBAD_ARG, value |-> 0]

\* MetaVolume::get_capacity
MetaVolume_get_capacity(m, i) ==
    IF i \in DOMAIN m THEN [status |-> AKU_SUCCESS, value |-> m[i].capacity]
                      ELSE [status |-> AKU_EBAD_ARG, value |-> 0]

\* MetaVolume::set_generation
MetaVolume_set_generation(m, i, gen) == [m EXCEPT ![i].generation = gen]

\* MetaVolume::set_nblocks
MetaVolume_set_nblocks(m, i, n) == [m EXCEPT ![i].nblocks = n]

\* --------------------------------------------------- FixedSizeFileStorage
\* FixedSizeFileStorage::create: new volume files and a new meta-volume.
FixedSizeFileStorage_create(caps) ==
    [meta |-> MetaVolume_create_new(caps),
     files |-> [i \in DOMAIN caps |-> Volume_create_new(caps[i])]]

\* The constructor: open every volume with the nblocks stored in meta, then
\* make the first volume with free space the current one.  When no volume
\* has free space the members keep their initial values 0 and 0.
FixedSizeFileStorage_open(m, files) ==
    LET opened == [i \in DOMAIN files |->
                     Volume_open_existing(files[i], MetaVolume_get_nblocks(m, i).value)]
        free   == {i \in DOMAIN opened :
                     opened[i].file_size > MetaVolume_get_nblocks(m, i).value}
        first  == CHOOSE i \in free : \A j \in free : i <= j
    IN  [meta           |-> m,
         volumes        |-> opened,
         current_volume |-> IF free = {} THEN 0 ELSE first,
         current_gen    |-> IF free = {} THEN U32(0)
                            ELSE MetaVolume_get_generation(m, first).value,
         dirty          |-> [i \in DOMAIN files |-> 0]]

\* exists with the slot compared by <= instead of <.
exists_slot_le(S, addr) ==
    LET gen   == extract_gen(addr)
        vol   == extract_vol(addr)
        volix == U32Mod(gen, NVolumes(S))
        g     == MetaVolume_get_generation(S.meta, volix)
        n     == MetaVolume_get_nblocks(S.meta, volix)
    IN  IF g.status # AKU_SUCCESS THEN FALSE
        ELSE IF n.status # AKU_SUCCESS THEN FALSE
        ELSE g.value = gen /\ ~U32Less(U32(n.value), vol)

\* exists: the address checks against the meta-volume.
exists(S, addr) ==
    LET gen   == extract_gen(addr)
        vol   == extract_vol(addr)
        volix == U32Mod(gen, NVolumes(S))
        g     == MetaVolume_get_generation(S.meta, volix)
        n     == MetaVolume_get_nblocks(S.meta, volix)
    IN  IF g.status # AKU_SUCCESS THEN FALSE
        ELSE IF n.status # AKU_SUCCESS THEN FALSE
        ELSE g.value = gen /\ U32Less(vol, U32(n.value))

\* read_block: BadArg unless the address checks pass, then the volume read.
\* The Block is <<>> when none is returned.
read_block(S, addr, io_ok) ==
    LET gen   == extract_gen(addr)
        vol   == extract_vol(addr)
        volix == U32Mod(gen, NVolumes(S))
        g     == MetaVolume_get_generation(S.meta, volix)
        n     == MetaVolume_get_nblocks(S.meta, volix)
    IN  IF g.status # AKU_SUCCESS THEN [status |-> AKU_EBAD_ARG, block |-> <<>>]
        ELSE IF n.status # AKU_SUCCESS THEN [status |-> AKU_EBAD_ARG, block |-> <<>>]
        ELSE IF g.value # gen \/ ~U32Less(vol, U32(n.value))
             THEN [status |-> AKU_EBAD_ARG, block |-> <<>>]
        ELSE LET r == Volume_read_block(S.volumes[volix], vol[1], io_ok)
             IN  IF r.status # AKU_SUCCESS
                 THEN [status |-> r.status, block |-> <<>>]
                 ELSE [status |-> r.status,
                       block  |-> <<[addr |-> addr, data |-> r.data]>>]

\* advance_volume, first part: step to the next volume of the ring and load
\* its generation.
advance_select(S) ==
    LET next == (S.current_volume + 1) % NVolumes(S)
    IN  [S EXCEPT !.current_volume = next,
                  !.current_gen = MetaVolume_get_generation(S.meta, next).value]

\* advance_volume, non-empty volume: bump the generation by the ring size.
advance_set_generation(S) ==
    LET gen == U32Add(S.current_gen, NVolumes(S))
    IN  [S EXCEPT !.current_gen = gen,
                  !.meta = MetaVolume_set_generation(S.meta, S.current_volume, gen)]

\* advance_volume, non-empty volume: reset nblocks and the volume.
advance_reset(S) ==
    [S EXCEPT !.meta = MetaVolume_set_nblocks(S.meta, S.current_volume, 0),
              !.volumes[S.current_volume] = Volume_reset(@),
              !.dirty[S.current_volume] = @ + 1]

\* advance_volume
advance_volume(S) ==
    LET S1 == advance_select(S)
    IN  IF MetaVolume_get_nblocks(S1.meta, S1.current_volume).value # 0
        THEN advance_reset(advance_set_generation(S1))
        ELSE S1

\* append_block, the first attempt on the current volume.  The result is
\* the call's frame: the store, the locals status and block_addr, the Block.
append_first(S, block, io_ok) ==
    LET r == Volume_append_block(S.volumes[S.current_volume], block.data, io_ok)
    IN  [S          |-> [S EXCEPT !.volumes[S.current_volume] = r.vol],
         status     |-> r.status,
         block_addr |-> r.addr,
         block      |-> block,
         vstatus    |-> r.status,
         addr       |-> U64FromU32(U32(0))]

\* append_block, the second attempt after advance_volume.
append_retry(F, io_ok) ==
    LET S == F.S
        r == Volume_append_block(S.volumes[S.current_volume], F.block.data, io_ok)
    IN  [F EXCEPT !.S = [S EXCEPT !.volumes[S.current_volume] = r.vol],
                  !.status = r.status,
                  !.block_addr = r.addr,
                  !.vstatus = r.status]

\* append_block, the tail: set the Block's address, record nblocks, return.
append_commit(F) ==
    LET S == F.S
    IN  [F EXCEPT !.block.addr = U64FromU32(U32(F.block_addr)),
                  !.S = [S EXCEPT
                           !.meta = MetaVolume_set_nblocks(S.meta, S.current_volume,
                                                           F.block_addr + 1),
                           !.dirty[S.current_volume] = @ + 1],
                  !.status = AKU_SUCCESS,
                  !.addr = make_logic(S.current_gen, U32(F.block_addr))]

\* append_block as one critical section.  A full volume answers Overflow
\* without touching the file, so a call writes to a file at most once and
\* io_ok is the outcome of that write.
append_block(S, block, io_ok) ==
    LET F1 == append_first(S, block, io_ok)
    IN  IF F1.status = AKU_EOVERFLOW
        THEN LET F2 == append_retry([F1 EXCEPT !.S = advance_volume(F1.S)], io_ok)
             IN  IF F2.status # AKU_SUCCESS THEN F2 ELSE append_commit(F2)
        ELSE append_commit(F1)

\* ------------------------------------------------------------ initial state
\* One complete pass over the ring from volume i, slot s: the append_block
\* results of filling every volume under the generations recorded in m.
RECURSIVE FillHistory(_, _, _)
FillHistory(m, i, s) ==
    IF i \notin DOMAIN m THEN <<>>
    ELSE IF s >= m[i].capacity THEN FillHistory(m, i + 1, 0)
    ELSE <<[status |-> AKU_SUCCESS, addr |-> make_logic(m[i].generation, U32(s)),
            data |-> 0, vol |-> i]>> \o FillHistory(m, i, s + 1)

\* The generation of volume i of a ring of n volumes after the largest number
\* of complete passes that keeps every generation below 2^32: i + K*n with
\* K*n = 2^32 - n - (2^32 mod n).
AgedGeneration(i, n) ==
    LET r == ((Limb % n) * (Limb % n)) % n
    IN  <<Limb - (n + r) + i, Limb - 1>>

\* The meta-volume and the volume files of a store that has been written for
\* that long: every volume is full.
AgedStore(caps) ==
    [meta  |-> [i \in DOMAIN caps |->
                  [capacity |-> caps[i], nblocks |-> caps[i],
                   generation |-> AgedGeneration(i, Cardinality(DOMAIN caps))]],
     files |-> [i \in DOMAIN caps |->
                  [file_size |-> caps[i], write_pos |-> caps[i],
                   pages |-> [p \in 0..(caps[i] - 1) |-> 0]]]]

\* Per-volume capacity and nblocks as the meta-volume records them.
MetaStats(m) == [i \in DOMAIN m |-> [capacity |-> m[i].capacity, nblocks |-> m[i].nblocks]]

NoRet == [op |-> "none", arg |-> EMPTY_ADDR, status |-> AKU_SUCCESS, addr |-> EMPTY_ADDR,
          block |-> <<>>, flag |-> FALSE, vstatus |-> AKU_SUCCESS]

NoFrame == [S |-> <<>>, status |-> AKU_SUCCESS, block_addr |-> 0, block |-> <<>>,
            vstatus |-> AKU_SUCCESS, addr |-> EMPTY_ADDR]

\* No codec, cache or MemStore object has been constructed.
NoOthers ==
    /\ v1 = <<>>
    /\ v2 = <<>>
    /\ chain = <<>>
    /\ cache = <<>>
    /\ mem = <<>>

\* The store is created and opened (fresh), or opened on the files of a
\* store that has run for a long time (aged).  The history of an aged store
\* holds its very first pass over the ring, recycled long ago.
Init ==
    \E n \in 1..MaxVolumes :
      \E caps \in [0..(n - 1) -> 1..MaxCapacity] :
        \E aged \in BOOLEAN :
          LET files == IF aged THEN AgedStore(caps) ELSE FixedSizeFileStorage_create(caps)
              S     == FixedSizeFileStorage_open(files.meta, files.files)
              first == FillHistory(MetaVolume_create_new(caps), 0, 0)
          IN  /\ meta = S.meta
              /\ volumes = S.volumes
              /\ current_volume = S.current_volume
              /\ current_gen = S.current_gen
              /\ dirty = S.dirty
              /\ history = IF aged THEN first ELSE <<>>
              /\ recycled = IF aged THEN {first[k].addr : k \in DOMAIN first} ELSE {}
              /\ ret = NoRet
              /\ ncalls = 0
              /\ reopened = FALSE
              /\ apc = "idle"
              /\ frame = NoFrame
              /\ spc = "idle"
              /\ six = 0
              /\ stats = <<>>
              /\ quiescent = <<MetaStats(S.meta)>>
              /\ NoOthers

\* ----------------------------------------------------------------- actions
SetStore(S) ==
    /\ meta' = S.meta
    /\ volumes' = S.volumes
    /\ current_volume' = S.current_volume
    /\ current_gen' = S.current_gen
    /\ dirty' = S.dirty

\* Addresses returned for volumes whose generation changed between m and m2.
Recycled(m, m2) ==
    {history[k].addr : k \in {j \in DOMAIN history :
        /\ history[j].status = AKU_SUCCESS
        /\ m2[history[j].vol].generation # m[history[j].vol].generation}}

\* The ghost record of a completed append_block call.
Completed(F) ==
    /\ history' = Append(history, [status |-> F.status, addr |-> F.addr,
                                   data |-> F.block.data, vol |-> F.S.current_volume])
    /\ ret' = [op |-> "append_block", arg |-> EMPTY_ADDR, status |-> F.status,
               addr |-> F.addr, block |-> <<F.block>>, flag |-> FALSE,
               vstatus |-> F.vstatus]
    /\ ncalls' = ncalls + 1

\* The Block a caller hands to append_block: a fresh Block whose bytes
\* differ from the bytes of every other Block appended (the payload is the
\* number of the call), so that a read can tell the appends apart.
NewBlock == [addr |-> EMPTY_ADDR, data |-> ncalls + 1]

\* append_block(data) under the mutex; io tells whether the write to the
\* volume file succeeds.
AppendBlock ==
    /\ apc = "idle"
    /\ ret = NoRet
    /\ ncalls < MaxAppends
    /\ \E io \in BOOLEAN :
         LET F == append_block(Store, NewBlock, io)
         IN  /\ SetStore(F.S)
             /\ Completed(F)
             /\ recycled' = recycled \cup Recycled(meta, F.S.meta)
    /\ UNCHANGED <<other_vars, reopened, conc_vars>>

\* Addresses a caller may ask for: every address ever returned; for every
\* volume the first slot past its blocks under its generation and slot 0
\* under its next generation; and a slot that differs from slot 0 in its
\* upper half only.
ProbeAddrs ==
    {history[k].addr : k \in DOMAIN history}
    \cup {make_logic(meta[i].generation, U32(meta[i].nblocks)) : i \in DOMAIN meta}
    \cup {make_logic(U32Add(meta[i].generation, Cardinality(DOMAIN meta)), U32(0)) :
            i \in DOMAIN meta}
    \cup {make_logic(current_gen, <<0, 1>>)}

\* read_block(addr) under the mutex.
ReadBlock ==
    /\ apc = "idle"
    /\ ret = NoRet
    /\ \E a \in ProbeAddrs, io \in BOOLEAN :
         LET r == read_block(Store, a, io)
         IN  ret' = [op |-> "read_block", arg |-> a, status |-> r.status,
                     addr |-> EMPTY_ADDR, block |-> r.block, flag |-> FALSE,
                     vstatus |-> AKU_SUCCESS]
    /\ UNCHANGED <<other_vars, store_vars, history, recycled, ncalls, reopened, conc_vars>>

\* exists(addr) under the mutex.
Exists ==
    /\ apc = "idle"
    /\ ret = NoRet
    /\ \E a \in ProbeAddrs :
         ret' = [op |-> "exists", arg |-> a, status |-> AKU_SUCCESS,
                 addr |-> EMPTY_ADDR, block |-> <<>>, flag |-> exists(Store, a),
                 vstatus |-> AKU_SUCCESS]
    /\ UNCHANGED <<other_vars, store_vars, history, recycled, ncalls, reopened, conc_vars>>

\* The store is destroyed and opened again on its meta-volume and files.
Reopen ==
    /\ apc = "idle"
    /\ spc = "idle"
    /\ ret = NoRet
    /\ SetStore(FixedSizeFileStorage_open(meta, volumes))
    /\ ret' = [NoRet EXCEPT !.op = "open"]
    /\ reopened' = TRUE
    /\ UNCHANGED <<other_vars, history, recycled, ncalls, conc_vars>>

\* The caller takes the result of the call it made; it makes one call at a
\* time.
TakeResult ==
    /\ ret # NoRet
    /\ ret' = NoRet
    /\ UNCHANGED <<other_vars, store_vars, history, recycled, ncalls, reopened, conc_vars>>

Next == AppendBlock \/ ReadBlock \/ Exists \/ Reopen \/ TakeResult

Spec == Init /\ [][Next]_vars

\* ------------------------------------------- get_stats against append_block
\* append_block holds the mutex from its first statement to its return;
\* get_stats and get_volume_stats take no lock, so each of their meta-volume
\* reads may fall between any two meta-volume writes of an append_block call
\* in progress.  The steps below are the statements of append_block and
\* advance_volume between two such writes.  This specification records no
\* history of the appends: it is about the totals that get_stats reports.

\* The frame of the call in progress with the store as it is now.
Frame == [frame EXCEPT !.S = Store]

\* Keep the locals of a frame; the store lives in the variables.
Locals(F) == [F EXCEPT !.S = <<>>]

\* The call returns: the state between two appends is one more state whose
\* totals a running get_stats call may report.
AppendReturns(S) ==
    /\ apc' = "idle"
    /\ frame' = NoFrame
    /\ ncalls' = ncalls + 1
    /\ quiescent' = IF spc = "idle" THEN <<MetaStats(S.meta)>>
                    ELSE Append(quiescent, MetaStats(S.meta))

\* append_block: lock, first attempt on the current volume.
AppendFirst ==
    /\ apc = "idle"
    /\ ncalls < MaxAppends
    /\ \E io \in BOOLEAN :
         LET F == append_first(Store, NewBlock, io)
         IN  /\ SetStore(F.S)
             /\ frame' = Locals(F)
             /\ apc' = IF F.status = AKU_EOVERFLOW THEN "advance" ELSE "commit"
    /\ UNCHANGED <<other_vars, ghost_vars, spc, six, stats, quiescent>>

\* advance_volume: the next volume becomes current.
AdvanceSelect ==
    /\ apc = "advance"
    /\ LET S == advance_select(Store)
       IN  /\ SetStore(S)
           /\ apc' = IF MetaVolume_get_nblocks(S.meta, S.current_volume).value # 0
                     THEN "set_generation" ELSE "retry"
    /\ UNCHANGED <<other_vars, ghost_vars, frame, spc, six, stats, quiescent>>

\* advance_volume: meta_->set_generation.
AdvanceSetGeneration ==
    /\ apc = "set_generation"
    /\ SetStore(advance_set_generation(Store))
    /\ apc' = "reset"
    /\ UNCHANGED <<other_vars, ghost_vars, frame, spc, six, stats, quiescent>>

\* advance_volume: meta_->set_nblocks(0) and the volume's reset.
AdvanceReset ==
    /\ apc = "reset"
    /\ SetStore(advance_reset(Store))
    /\ apc' = "retry"
    /\ UNCHANGED <<other_vars, ghost_vars, frame, spc, six, stats, quiescent>>

\* append_block: second attempt; a failure returns.
AppendRetry ==
    /\ apc = "retry"
    /\ \E io \in BOOLEAN :
         LET F == append_retry(Frame, io)
         IN  /\ SetStore(F.S)
             /\ IF F.status # AKU_SUCCESS
                THEN AppendReturns(F.S)
                ELSE /\ frame' = Locals(F)
                     /\ apc' = "commit"
                     /\ UNCHANGED <<ncalls, quiescent>>
    /\ UNCHANGED <<other_vars, history, recycled, ret, reopened, spc, six, stats>>

\* append_block: set_addr, meta_->set_nblocks, return and unlock.
AppendCommit ==
    /\ apc = "commit"
    /\ LET F == append_commit(Frame)
       IN  /\ SetStore(F.S)
           /\ AppendReturns(F.S)
    /\ UNCHANGED <<other_vars, history, recycled, ret, reopened, spc, six, stats>>

\* get_stats or get_volume_stats is called: stats = {}, ix = 0.
StatsCall ==
    /\ spc = "idle"
    /\ \E op \in {"get_stats", "get_volume_stats"} :
         stats' = [op |-> op, capacity |-> 0, nblocks |-> 0, result |-> <<>>]
    /\ spc' = "loop"
    /\ six' = 0
    /\ quiescent' = <<quiescent[Len(quiescent)]>>
    /\ ret' = NoRet
    /\ UNCHANGED <<other_vars, store_vars, history, recycled, ncalls, reopened, apc, frame>>

\* One iteration of the loop over the volumes: get_capacity and get_nblocks
\* of volume ix, added to the totals (get_stats) or stored under the
\* volume's name (get_volume_stats).
StatsLoop ==
    /\ spc = "loop"
    /\ LET c == MetaVolume_get_capacity(meta, six)
           n == MetaVolume_get_nblocks(meta, six)
       IN  stats' = IF stats.op = "get_stats"
                    THEN [stats EXCEPT !.capacity = @ + c.value, !.nblocks = @ + n.value]
                    ELSE [stats EXCEPT !.result =
                            Append(@, [capacity |-> c.value, nblocks |-> n.value])]
    /\ six' = six + 1
    /\ spc' = IF six + 1 < Cardinality(DOMAIN meta) THEN "loop" ELSE "done"
    /\ UNCHANGED <<other_vars, store_vars, ghost_vars, apc, frame, quiescent>>

\* The call returns its result.
StatsReturn ==
    /\ spc = "done"
    /\ spc' = "idle"
    /\ six' = 0
    /\ stats' = <<>>
    /\ quiescent' = <<quiescent[Len(quiescent)]>>
    /\ ret' = [NoRet EXCEPT !.op = stats.op]
    /\ UNCHANGED <<other_vars, store_vars, history, recycled, ncalls, reopened, apc, frame>>

NextConc ==
    \/ AppendFirst \/ AdvanceSelect \/ AdvanceSetGeneration \/ AdvanceReset
    \/ AppendRetry \/ AppendCommit
    \/ StatsCall \/ StatsLoop \/ StatsReturn

SpecConc == Init /\ [][NextConc]_vars

\* ------------------------------------------------------------------ claims
\* The append_block calls that reported success, positions in history.
Succeeded == {k \in DOMAIN history : history[k].status = AKU_SUCCESS}

\* C1: a successful read_block(a) of an address a that append_block returned
\* yields a Block with address a holding the bytes of every append that
\* returned a; it never yields the bytes of another append.
C1_ReadIntegrity ==
    (ret.op = "read_block" /\ ret.status = AKU_SUCCESS) =>
        \A k \in Succeeded :
            history[k].addr = ret.arg =>
                /\ ret.block[1].addr = ret.arg
                /\ ret.block[1].data = history[k].data

\* C2: no two successful append_block calls return the same address.
C2_AddressUniqueness ==
    \A j \in Succeeded, k \in Succeeded : j # k => history[j].addr # history[k].addr

\* C3: an address whose volume has been recycled does not exist and reading
\* it fails with BadArg, from then on.
C3_CrossGenerationReadFails ==
    /\ (ret.op = "exists" /\ ret.arg \in recycled) => ~ret.flag
    /\ (ret.op = "read_block" /\ ret.arg \in recycled) => ret.status = AKU_EBAD_ARG

\* C4: after a successful append_block the Block's address is the logical
\* address the call returned.
C4_BlockAddrIsReturnedAddr ==
    (ret.op = "append_block" /\ ret.status = AKU_SUCCESS) =>
        ret.block[1].addr = ret.addr

IsSuccess(h) == h.status = AKU_SUCCESS

\* C5: on a freshly created store of V volumes of capacity C, never closed,
\* the n-th successful append returns slot n mod C and the generation
\* v + V*(n div (C*V)) of volume v = (n div C) mod V (the initial generation
\* of volume v is v).
C5_RingAddressSequence ==
    LET V  == Cardinality(DOMAIN meta)
        C  == meta[0].capacity
        ok == SelectSeq(history, IsSuccess)
    IN  (Len(history) = ncalls /\ ~reopened /\ \A i \in DOMAIN meta : meta[i].capacity = C) =>
            \A k \in DOMAIN ok :
                LET n == k - 1
                    v == (n \div C) % V
                IN  ok[k].addr = make_logic(U32Add(U32(v), V * (n \div (C * V))), U32(n % C))

\* C6: addresses returned under one generation value have strictly
\* increasing slots in completion order, and whenever the generation of a
\* volume changes in the meta-volume it becomes strictly greater.
C6_AppendOrdering ==
    /\ [](\A j \in Succeeded, k \in Succeeded :
            (j < k /\ extract_gen(history[j].addr) = extract_gen(history[k].addr)) =>
                U32Less(extract_vol(history[j].addr), extract_vol(history[k].addr)))
    /\ [][\A i \in DOMAIN meta :
            meta'[i].generation # meta[i].generation =>
                U32Less(meta[i].generation, meta'[i].generation)]_vars

\* C8: append_block reports success only if the volume append succeeded, and
\* when the volume append fails with a status other than Overflow the call
\* returns that status, leaves every nblocks as it was (or as advance_volume
\* reset it) and leaves the Block's address unassigned.
C8_AppendRecordsOnlyOnSuccess ==
    [][ncalls' = ncalls + 1 =>
         /\ ret'.status = AKU_SUCCESS => ret'.vstatus = AKU_SUCCESS
         /\ ret'.vstatus \notin {AKU_SUCCESS, AKU_EOVERFLOW} =>
              /\ ret'.status = ret'.vstatus
              /\ \A i \in DOMAIN meta : meta'[i].nblocks \in {meta[i].nblocks, 0}
              /\ ret'.block[1].addr = EMPTY_ADDR]_vars

\* C9: after open, current_gen is the meta generation of current_volume, and
\* current_volume is the lowest volume with free space when there is one.
C9_OpenPostcondition ==
    ret.op = "open" =>
        LET free == {i \in DOMAIN meta : meta[i].nblocks < meta[i].capacity}
        IN  /\ current_gen = meta[current_volume].generation
            /\ free # {} => (current_volume \in free /\ \A j \in free : current_volume <= j)

\* C7: whenever exists(a) returns, its answer is true exactly when
\* read_block(a) on the same store does not fail with BadArg, whatever the
\* outcome of the file read, and the call has left the store as it was.
C7_ExistsAgreesWithRead ==
    [][ret'.op = "exists" =>
         /\ \A io \in BOOLEAN :
              ret'.flag <=> read_block(Store', ret'.arg, io).status # AKU_EBAD_ARG
         /\ UNCHANGED store_vars]_vars

\* exists has answered true for an address that append_block returned, in a
\* store that has recycled a volume.
C7_Witness ==
    /\ ret.op = "exists"
    /\ ret.flag
    /\ \E k \in Succeeded : history[k].addr = ret.arg
    /\ recycled # {}


\* Sum of one field of per-volume stats q over the volumes 0..(n - 1).
RECURSIVE Total(_, _, _)
Total(q, field, n) ==
    IF n = 0 THEN 0 ELSE q[n - 1][field] + Total(q, field, n - 1)

\* The result in stats is what the call would return for the meta state q.
StatsOf(q) ==
    LET n == Cardinality(DOMAIN q)
    IN  IF stats.op = "get_stats"
        THEN stats.capacity = Total(q, "capacity", n) /\ stats.nblocks = Total(q, "nblocks", n)
        ELSE /\ Len(stats.result) = n
             /\ \A i \in DOMAIN q : stats.result[i + 1] = q[i]

\* C10: what get_stats or get_volume_stats returns is the totals of a state
\* between two complete append_block calls: the state at the last return of
\* append_block before the call began, or one at a later return.
C10_StatsSeeCompleteAppends ==
    spc = "done" => \E k \in DOMAIN quiescent : StatsOf(quiescent[k])

\* ======================================================== compression.h
\* ---------------------------------------------------------------- bounds
\* Largest buffer (in bytes) handed to a V1 writer.
MaxBuf == 11
\* Largest number of values written to one V1 stream.
MaxPuts == 2

StreamOutOfBounds == "StreamOutOfBounds"
OK == "OK"

\* ------------------------------------------------------------ u64 values
\* A small natural number as uint64_t (four 16-bit limbs).
U64(n) == <<n % Limb, (n \div Limb) % Limb, 0, 0>>

U64Zero == <<0, 0, 0, 0>>

\* The element of a one-element set.  Only({e(x) : x \in {v}}) is e(v) with
\* v evaluated once, however often e uses it.
Only(S) == CHOOSE x \in S : TRUE

\* The sign bit of a 64-bit value.
IsNegative(v) == v[4] >= Limb \div 2

\* value >> k for 0 < k < 16; `top` is what comes in at the top: zeros for
\* an unsigned TVal, copies of the sign bit for a signed one.
Shr(v, k, top) ==
    LET part(lo, hi) == (lo \div (2 ^ k)) + ((hi % (2 ^ k)) * (2 ^ (16 - k)))
    IN  <<part(v[1], v[2]), part(v[2], v[3]), part(v[3], v[4]), part(v[4], top)>>

\* put with `value >>= 8` in place of `value >>= 7`.
put_shift_8(value, signed) ==
    Shr(value, 8, IF signed /\ IsNegative(value) THEN Limb - 1 ELSE 0)

\* value >>= 7 as Base128Int<TVal>::put does it: TVal is uint64_t, or
\* int64_t (signed), whose shift keeps the sign.
put_shift(value, signed) ==
    Shr(value, 7, IF signed /\ IsNegative(value) THEN Limb - 1 ELSE 0)

\* TVal(i) << cnt for a 7-bit i and cnt < 64, truncated to 64 bits.
Shl7(i, cnt) ==
    LET x == i * (2 ^ (cnt % 16))
        q == (cnt \div 16) + 1
        limb(j) == IF j = q THEN x % Limb ELSE IF j = q + 1 THEN (x \div Limb) % Limb ELSE 0
    IN  <<limb(1), limb(2), limb(3), limb(4)>>

\* get with `cnt += 7` left out: every group lands on bit 0.
get_accumulate_unshifted(acc, i, cnt) ==
    LET x == Shl7(i, 0)
    IN  <<(acc[1] + x[1]) % Limb, (acc[2] + x[2]) % Limb, (acc[3] + x[3]) % Limb,
          (acc[4] + x[4]) % Limb>>

\* acc |= TVal(i) << cnt.  acc holds bits below cnt only, so the two operands
\* of | share no bit and | is limb-wise addition.
get_accumulate(acc, i, cnt) ==
    LET x == Shl7(i, cnt) IN <<acc[1] + x[1], acc[2] + x[2], acc[3] + x[3], acc[4] + x[4]>>

\* Byte k (0 = least significant) of a 64-bit value.
ByteOf(v, k) == (v[(k \div 2) + 1] \div (IF k % 2 = 0 THEN 1 ELSE 256)) % 256

\* -------------------------------------------------------------- Base128Int
\* The loop of Base128Int::put from p on; ok = FALSE is `return begin`.
\* The bytes stored before the loop runs into `end` stay in the buffer.
RECURSIVE put_loop(_, _, _, _, _)
put_loop(value, signed, buf, p, end) ==
    IF p = end
    THEN [ok |-> FALSE, p |-> p, buf |-> buf]
    ELSE LET byte == value[1] % 128
             next(rest) ==
                 IF rest # U64Zero
                 THEN put_loop(rest, signed, [buf EXCEPT ![p] = byte + 128], p + 1, end)
                 ELSE [ok |-> TRUE, p |-> p + 1, buf |-> [buf EXCEPT ![p] = byte]]
         IN  CHOOSE res \in {next(rest) : rest \in {put_shift(value, signed)}} : TRUE

\* Base128Int<TVal>::put(begin, end): the position after the integer, or
\* begin when it does not fit.
Base128Int_put(value, signed, buf, begin, end) ==
    IF begin >= end
    THEN [p |-> begin, buf |-> buf]
    ELSE Only({[p |-> IF r.ok THEN r.p ELSE begin, buf |-> r.buf] :
               r \in {put_loop(value, signed, buf, begin, end)}})

\* The loop of Base128Int::get from p on.  A shift by 64 or more is
\* undefined: ub marks it.
RECURSIVE get_loop(_, _, _, _, _)
get_loop(acc, cnt, buf, p, end) ==
    IF p = end
    THEN [ok |-> FALSE, ub |-> FALSE, p |-> p, value |-> acc]
    ELSE IF cnt >= 64
    THEN [ok |-> FALSE, ub |-> TRUE, p |-> p, value |-> acc]
    ELSE LET acc2 == get_accumulate(acc, buf[p] % 128, cnt)
         IN  IF buf[p] < 128
             THEN [ok |-> TRUE, ub |-> FALSE, p |-> p + 1, value |-> acc2]
             ELSE get_loop(acc2, cnt + 7, buf, p + 1, end)

\* Base128Int<TVal>::get(begin, end): the position after the integer and
\* its value, or begin when the bytes end inside the integer.
Base128Int_get(buf, begin, end) ==
    Only({[p |-> IF r.ok THEN r.p ELSE begin, value |-> r.value, ub |-> r.ub] :
          r \in {get_loop(U64Zero, 0, buf, begin, end)}})

\* ---------------------------------------------------- Base128StreamWriter
\* Base128StreamWriter(begin, end) on a buffer of `size` bytes.
Base128StreamWriter(size) ==
    [buf |-> [i \in 0..(size - 1) |-> 0], end_ |-> size, pos_ |-> 0]

\* Base128StreamWriter::put<TVal>(value)
Base128StreamWriter_put(w, value, signed) ==
    Only({IF w.pos_ = r.p
          THEN [status |-> StreamOutOfBounds, w |-> [w EXCEPT !.buf = r.buf]]
          ELSE [status |-> OK, w |-> [w EXCEPT !.buf = r.buf, !.pos_ = r.p]] :
          r \in {Base128Int_put(value, signed, w.buf, w.pos_, w.end_)}})

\* The store of the sz bytes of a value at pos_ (the machine is little-endian).
StoreBytes(buf, pos, value, sz) ==
    [i \in DOMAIN buf |-> IF i >= pos /\ i < pos + sz THEN ByteOf(value, i - pos) ELSE buf[i]]

\* put_raw that tests `pos_ == end_` for every width.
put_raw_unchecked_width(w, value, sz) ==
    IF w.pos_ = w.end_
    THEN [status |-> StreamOutOfBounds, w |-> w]
    ELSE [status |-> OK,
          w |-> [w EXCEPT !.buf = StoreBytes(w.buf, w.pos_, value, sz), !.pos_ = w.pos_ + sz]]

\* Base128StreamWriter::put_raw(unsigned char | uint32_t | uint64_t); sz is
\* sizeof(value).
Base128StreamWriter_put_raw(w, value, sz) ==
    IF (sz = 1 /\ w.pos_ = w.end_) \/ (sz > 1 /\ (w.end_ - w.pos_) < sz)
    THEN [status |-> StreamOutOfBounds, w |-> w]
    ELSE [status |-> OK,
          w |-> [w EXCEPT !.buf = StoreBytes(w.buf, w.pos_, value, sz), !.pos_ = w.pos_ + sz]]

\* Base128StreamWriter::size() and space_left()
Base128StreamWriter_size(w) == w.pos_
Base128StreamWriter_space_left(w) == w.end_ - w.pos_

\* Base128StreamWriter::allocate<T>(); sz is sizeof(T).
Base128StreamWriter_allocate(w, sz) ==
    IF Base128StreamWriter_space_left(w) < sz
    THEN [status |-> StreamOutOfBounds, w |-> w]
    ELSE [status |-> OK, w |-> [w EXCEPT !.pos_ = w.pos_ + sz]]

\* ---------------------------------------------------- Base128StreamReader
\* Base128StreamReader(begin, end) on the first `size` bytes of a buffer.
Base128StreamReader(buf, size) == [buf |-> buf, pos_ |-> 0, end_ |-> size]

\* Base128StreamReader::next<TVal>()
Base128StreamReader_next(r) ==
    LET g == Base128Int_get(r.buf, r.pos_, r.end_)
    IN  IF g.p = r.pos_
        THEN [status |-> StreamOutOfBounds, value |-> U64Zero, r |-> r, ub |-> g.ub]
        ELSE [status |-> OK, value |-> g.value, r |-> [r EXCEPT !.pos_ = g.p], ub |-> g.ub]

\* The value of the sz bytes at pos.
LoadBytes(buf, pos, sz) ==
    LET b(k) == IF k < sz THEN buf[pos + k] ELSE 0
    IN  <<b(0) + (256 * b(1)), b(2) + (256 * b(3)), b(4) + (256 * b(5)), b(6) + (256 * b(7))>>

\* Base128StreamReader::read_raw<TVal>(); sz is sizeof(TVal).
Base128StreamReader_read_raw(r, sz) ==
    IF (r.end_ - r.pos_) < sz
    THEN [status |-> StreamOutOfBounds, value |-> U64Zero, r |-> r, ub |-> FALSE]
    ELSE [status |-> OK, value |-> LoadBytes(r.buf, r.pos_, sz),
          r |-> [r EXCEPT !.pos_ = r.pos_ + sz], ub |-> FALSE]

\* ------------------------------------------------- V1 stream: the actions
\* No FixedSizeFileStorage has been constructed.
NoStore ==
    /\ meta = <<>>
    /\ volumes = <<>>
    /\ current_volume = 0
    /\ current_gen = U32(0)
    /\ dirty = <<>>
    /\ history = <<>>
    /\ recycled = {}
    /\ ret = NoRet
    /\ ncalls = 0
    /\ reopened = FALSE
    /\ apc = "idle"
    /\ frame = NoFrame
    /\ spc = "idle"
    /\ six = 0
    /\ stats = <<>>
    /\ quiescent = <<>>

U64Max == <<Limb - 1, Limb - 1, Limb - 1, Limb - 1>>

\* The values a caller writes: the corners of the one, two and three byte
\* encodings, the top bit alone and all bits.
V1Values == {U64(0), U64(127), U64(128), U64(16383), U64(16384), <<0, 0, 0, Limb \div 2>>, U64Max}

\* The value a caller hands to put_raw: bytes 01 02 .. of sizeof(value).
RawValue(sz) ==
    IF sz = 1 THEN U64(1) ELSE IF sz = 4 THEN <<513, 1027, 0, 0>> ELSE <<513, 1027, 1541, 2055>>

\* A writer on a fresh buffer; no call made, no reader constructed.
InitV1 ==
    /\ NoStore
    /\ \E size \in 1..MaxBuf :
         v1 = [w |-> Base128StreamWriter(size), items |-> <<>>, failed |-> FALSE,
               ret |-> [op |-> "none", arg |-> U64Zero, sz |-> 0, status |-> OK],
               r |-> <<>>, out |-> <<>>]
    /\ v2 = <<>>
    /\ chain = <<>>
    /\ cache = <<>>
    /\ mem = <<>>

\* The writer after a call: the item it wrote, if it wrote one, and the
\* result of the call.
V1Called(op, arg, sz, res) ==
    /\ v1.r = <<>>
    /\ Len(v1.items) < MaxPuts
    /\ v1' = [v1 EXCEPT
                !.w = res.w,
                !.items = IF res.status = OK
                          THEN Append(@, [kind |-> op, value |-> arg, sz |-> sz, at |-> v1.w.pos_])
                          ELSE @,
                !.failed = @ \/ res.status # OK,
                !.ret = [op |-> op, arg |-> arg, sz |-> sz, status |-> res.status]]
    /\ UNCHANGED <<file_vars, v2, chain, cache, mem>>

\* writer.put(value) with an unsigned 64-bit value.
V1Put ==
    \E value \in V1Values :
        V1Called("put", value, 0, Base128StreamWriter_put(v1.w, value, FALSE))

\* writer.put_raw(value) for each of its three overloads.
V1PutRaw ==
    \E sz \in {1, 4, 8} :
        V1Called("put_raw", RawValue(sz), sz, Base128StreamWriter_put_raw(v1.w, RawValue(sz), sz))

\* writer.allocate<uint32_t>()
V1Allocate ==
    V1Called("allocate", U64Zero, 4, Base128StreamWriter_allocate(v1.w, 4))

\* A reader is constructed on the bytes written.
V1OpenReader ==
    /\ v1.r = <<>>
    /\ v1.items # <<>>
    /\ v1' = [v1 EXCEPT !.r = Base128StreamReader(v1.w.buf, v1.w.pos_)]
    /\ UNCHANGED <<file_vars, v2, chain, cache, mem>>

\* The reader reads the next item the way it was written: next<uint64_t>()
\* for a put, read_raw<T>() for a put_raw or an allocate of a T.
V1Next ==
    /\ v1.r # <<>>
    /\ Len(v1.out) < Len(v1.items)
    /\ LET item == v1.items[Len(v1.out) + 1]
           res  == IF item.kind = "put"
                   THEN Base128StreamReader_next(v1.r)
                   ELSE Base128StreamReader_read_raw(v1.r, item.sz)
       IN  v1' = [v1 EXCEPT !.r = res.r,
                            !.out = Append(@, [status |-> res.status, value |-> res.value,
                                               ub |-> res.ub, pos |-> res.r.pos_])]
    /\ UNCHANGED <<file_vars, v2, chain, cache, mem>>

NextV1 == V1Put \/ V1PutRaw \/ V1Allocate \/ V1OpenReader \/ V1Next

SpecV1 == InitV1 /\ [][NextV1]_vars

\* ------------------------------------------------------ claims C11, C18, C19
\* Bit k of a 64-bit value (0 beyond bit 63).
Bit(v, k) == IF k > 63 THEN 0 ELSE (v[(k \div 16) + 1] \div (2 ^ (k % 16))) % 2

\* Number of bits up to the highest set bit.
BitLength(v) ==
    IF v = U64Zero THEN 0
    ELSE 1 + CHOOSE k \in 0..63 : Bit(v, k) = 1 /\ \A j \in (k + 1)..63 : Bit(v, j) = 0

\* max(1, ceil(bitlength(v) / 7))
V1Length(v) == IF v = U64Zero THEN 1 ELSE (BitLength(v) + 6) \div 7

\* Bits 7j .. 7j+6 of v as a number.
Group7(v, j) ==
    Bit(v, 7 * j) + (2 * Bit(v, (7 * j) + 1)) + (4 * Bit(v, (7 * j) + 2))
    + (8 * Bit(v, (7 * j) + 3)) + (16 * Bit(v, (7 * j) + 4))
    + (32 * Bit(v, (7 * j) + 5)) + (64 * Bit(v, (7 * j) + 6))

\* Where item k of the stream ends.
V1ItemEnd(k) == IF k < Len(v1.items) THEN v1.items[k + 1].at ELSE v1.w.pos_

V1AllPut == \A k \in DOMAIN v1.items : v1.items[k].kind = "put"

\* C11: for a stream written with put only, every next() of the reader
\* succeeds and returns the value of the put at the same position, and its
\* cursor is then where the writer's cursor was after that put.
C11_V1RoundTrip ==
    V1AllPut =>
        \A k \in DOMAIN v1.out :
            /\ v1.out[k].status = OK
            /\ ~v1.out[k].ub
            /\ v1.out[k].value = v1.items[k].value
            /\ v1.out[k].pos = V1ItemEnd(k)

\* A ten byte value and a one byte value have been written and read back.
C11_Witness ==
    /\ V1AllPut
    /\ Len(v1.out) = Len(v1.items)
    /\ \E j \in DOMAIN v1.items, k \in DOMAIN v1.items :
         j < k /\ v1.items[j].value = U64Max /\ v1.items[k].value = U64(0)

\* C18: put(v) emits max(1, ceil(bitlength(v)/7)) bytes; byte j carries bits
\* 7j..7j+6 of v, and its high bit is set exactly when another byte follows.
C18_V1EncodingShape ==
    \A k \in DOMAIN v1.items :
        v1.items[k].kind = "put" =>
            LET v == v1.items[k].value
                n == V1ItemEnd(k) - v1.items[k].at
            IN  /\ n = V1Length(v)
                /\ \A j \in 0..(n - 1) :
                     v1.w.buf[v1.items[k].at + j] = Group7(v, j) + (IF j < n - 1 THEN 128 ELSE 0)

\* 16384 has been written in three bytes after another item.
C18_Witness ==
    \E k \in DOMAIN v1.items :
        /\ k > 1
        /\ v1.items[k].kind = "put"
        /\ v1.items[k].value = U64(16384)
        /\ V1ItemEnd(k) - v1.items[k].at = 3

\* C19: a put, put_raw or allocate that needs more bytes than the buffer has
\* left fails with StreamOutOfBounds, and a call that fails leaves pos_,
\* size() and space_left() as they were.
C19_V1FailureAtomicity ==
    [][(v1.r = <<>> /\ v1'.r = <<>> /\ v1' # v1) =>
         LET need == IF v1'.ret.op = "put" THEN V1Length(v1'.ret.arg) ELSE v1'.ret.sz
         IN  /\ need > Base128StreamWriter_space_left(v1.w) =>
                    v1'.ret.status = StreamOutOfBounds
             /\ v1'.ret.status = StreamOutOfBounds =>
                    /\ v1'.w.pos_ = v1.w.pos_
                    /\ Base128StreamWriter_size(v1'.w) = Base128StreamWriter_size(v1.w)
                    /\ Base128StreamWriter_space_left(v1'.w) = Base128StreamWriter_space_left(v1.w)
                    /\ v1'.items = v1.items]_vars

\* A put has succeeded after an earlier call on the same writer failed.
C19_Witness ==
    /\ v1.failed
    /\ v1.ret.op = "put"
    /\ v1.ret.status = OK
    /\ v1.r = <<>>

\* ================================================== Base128StreamWriterV2
\* ---------------------------------------------------------------- bounds
\* Largest buffer handed to a V2 writer, in 9-byte groups.
MaxGroups == 2
\* Largest number of values written to one V2 stream.
MaxPutsV2 == 3

\* enum { BLOCK_SIZE = 9 }
BLOCK_SIZE == 9

\* Leading zero bits of a non-zero 16-bit limb.
LimbClz(x) == CHOOSE n \in 0..15 : x < 2 ^ (16 - n) /\ x >= 2 ^ (15 - n)

\* __builtin_clzl(value) for a non-zero 64-bit value.
clzl(value) ==
    IF value[4] # 0 THEN LimbClz(value[4])
    ELSE IF value[3] # 0 THEN 16 + LimbClz(value[3])
    ELSE IF value[2] # 0 THEN 32 + LimbClz(value[2])
    ELSE 48 + LimbClz(value[1])

\* c | (1 << k) on a byte.
SetBit(c, k) == IF (c \div (2 ^ k)) % 2 = 1 THEN c ELSE (c + (2 ^ k)) % 256

\* outbuf_[i] = byte.  The writer tests no index: a store at or beyond
\* size_ goes to whatever memory lies behind the buffer, and overrun
\* records that it happened.
V2Store(w, i, byte) ==
    IF i < w.size_
    THEN [w EXCEPT !.outbuf_ = [@ EXCEPT ![i] = byte]]
    ELSE [w EXCEPT !.overrun = TRUE]

\* Base128StreamWriterV2(begin, end) on a buffer of `size` bytes.
Base128StreamWriterV2(size) ==
    [outbuf_ |-> [i \in 0..(size - 1) |-> 0], size_ |-> size, pos_ |-> 1,
     ctrl_ |-> 0, ctrl_index_ |-> 0, overrun |-> FALSE]

\* The index counted from the control byte instead of the first payload byte.
curr_block_index_from_ctrl(w) == w.pos_ - w.ctrl_index_

\* curr_block_index() and curr_block_cap()
curr_block_index(w) == w.pos_ - (w.ctrl_index_ + 1)
curr_block_cap(w) == 8 - curr_block_index(w)

\* move_to_next_block(): the throw comes after the members have moved on.
move_to_next_block(w) ==
    LET w1 == V2Store(w, w.ctrl_index_, w.ctrl_)
        w2 == [w1 EXCEPT !.ctrl_ = 0,
                         !.ctrl_index_ = w.ctrl_index_ + BLOCK_SIZE,
                         !.pos_ = w.ctrl_index_ + BLOCK_SIZE + 1]
    IN  [status |-> IF w2.ctrl_index_ > w2.size_ THEN StreamOutOfBounds ELSE OK, w |-> w2]

\* The number of bytes put stores for a value.
put_nbytes(value) ==
    LET leading_zeroes == IF value = U64Zero THEN 56 ELSE clzl(value)
    IN  (64 - ((leading_zeroes \div 8) * 8)) \div 8

\* The loop of put: the low `left` bytes of value from pos_ on.
RECURSIVE put_bytes(_, _, _)
put_bytes(w, value, left) ==
    IF left = 0 THEN w
    ELSE put_bytes([V2Store(w, w.pos_, value[1] % 256) EXCEPT !.pos_ = w.pos_ + 1],
                   Shr(value, 8, 0), left - 1)

\* Base128StreamWriterV2::put<TVal>(value) for an unsigned 64-bit TVal.
Base128StreamWriterV2_put(w, value) ==
    LET nbytes == put_nbytes(value)
        m      == IF nbytes > curr_block_cap(w) THEN move_to_next_block(w)
                  ELSE [status |-> OK, w |-> w]
    IN  IF m.status # OK
        THEN [status |-> StreamOutOfBounds, w |-> m.w, at |-> m.w.pos_, nbytes |-> nbytes]
        ELSE LET w3 == put_bytes(m.w, value, nbytes)
             IN  [status |-> OK,
                  w |-> [w3 EXCEPT !.ctrl_ = SetBit(@, curr_block_index(w3) - 1)],
                  at |-> m.w.pos_, nbytes |-> nbytes]

\* Base128StreamWriterV2::commit()
Base128StreamWriterV2_commit(w) == V2Store(w, w.ctrl_index_, w.ctrl_)

\* ------------------------------------------------- Base128StreamReaderV2
\* A load that faults (no byte has this value).
Fault == 0 - 1

\* input_[i].  The reader tests no index: a load at or beyond size_ is
\* undefined; it yields the byte g that happens to lie there, or faults when
\* g is Fault.
V2Load(r, i, g) == IF i < r.size_ THEN r.input_[i] ELSE g

\* Base128StreamReaderV2(begin, end) on a buffer of `size` > 0 bytes.
Base128StreamReaderV2(buf, size) ==
    [input_ |-> buf, size_ |-> size, pos_ |-> 1, ctrl_index_ |-> 0, ctrl_ |-> buf[0],
     bit_index_ |-> 0]

\* _next_block()
next_block(r, g) ==
    [r EXCEPT !.ctrl_index_ = r.ctrl_index_ + BLOCK_SIZE,
              !.pos_ = r.ctrl_index_ + BLOCK_SIZE + 1,
              !.ctrl_ = V2Load(r, r.ctrl_index_ + BLOCK_SIZE, g),
              !.bit_index_ = 0]

\* result |= static_cast<TVal>(byte) << shift, for shift = 0, 8, .., 56.
next_accumulate(result, byte, shift) ==
    LET limb(j) == IF j = (shift \div 16) + 1
                   THEN result[j] + (byte * (IF shift % 16 = 0 THEN 1 ELSE 256))
                   ELSE result[j]
    IN  <<limb(1), limb(2), limb(3), limb(4)>>

\* The do-while loop of next(); oob tells whether a load left the buffer.
RECURSIVE next_loop(_, _, _, _, _)
next_loop(result, shift, r, g, oob) ==
    LET out  == r.pos_ >= r.size_
        byte == IF out /\ g = Fault THEN 0 ELSE V2Load(r, r.pos_, g)
        res  == next_accumulate(result, byte, shift)
        set  == (r.ctrl_ \div (2 ^ r.bit_index_)) % 2 = 1
        r2   == [r EXCEPT !.pos_ = r.pos_ + 1, !.bit_index_ = r.bit_index_ + 1]
    IN  IF shift + 8 = 64 \/ set
        THEN [value |-> res, r |-> r2, oob |-> oob \/ out]
        ELSE next_loop(res, shift + 8, r2, g, oob \/ out)

\* Base128StreamReaderV2::next<TVal>(); fault tells that a load outside the
\* buffer faulted, and then the call does not return.
Base128StreamReaderV2_next(r, g) ==
    LET l    == next_loop(U64Zero, 0, r, g, FALSE)
        more == (l.r.ctrl_ \div (2 ^ l.r.bit_index_)) # 0
        oob  == l.oob \/ (~more /\ l.r.ctrl_index_ + BLOCK_SIZE >= l.r.size_)
    IN  [value |-> l.value,
         r     |-> IF more \/ (oob /\ g = Fault) THEN l.r ELSE next_block(l.r, g),
         oob   |-> oob,
         fault |-> oob /\ g = Fault]

\* ------------------------------------------------- V2 stream: the actions
\* The values a caller writes: one, two, three and eight bytes long.
V2Values == {U64(0), U64(1), U64(256), U64(65536), <<0, 0, 0, 256>>, U64Max}

\* What a load outside the buffer may do: find a byte there, or fault.
OutOfBufferLoads == {0, 255, Fault}

\* A writer on a fresh buffer; no call made, no reader constructed.
InitV2 ==
    /\ NoStore
    /\ \E size \in 1..(BLOCK_SIZE * MaxGroups) :
         v2 = [w |-> Base128StreamWriterV2(size), items |-> <<>>, nput |-> 0,
               threw |-> FALSE, committed |-> FALSE,
               r |-> <<>>, calls |-> 0, out |-> <<>>, faulted |-> FALSE]
    /\ v1 = <<>>
    /\ chain = <<>>
    /\ cache = <<>>
    /\ mem = <<>>

\* writer.put(value) with an unsigned 64-bit value.
V2Put ==
    /\ ~v2.committed
    /\ v2.nput < MaxPutsV2
    /\ \E value \in V2Values :
         LET res == Base128StreamWriterV2_put(v2.w, value)
         IN  v2' = [v2 EXCEPT
                      !.w = res.w,
                      !.nput = @ + 1,
                      !.threw = @ \/ res.status # OK,
                      !.items = IF res.status = OK
                                THEN Append(@, [value |-> value, at |-> res.at, n |-> res.nbytes])
                                ELSE @]
    /\ UNCHANGED <<file_vars, v1, chain, cache, mem>>

\* writer.commit()
V2Commit ==
    /\ ~v2.committed
    /\ v2.nput > 0
    /\ v2' = [v2 EXCEPT !.w = Base128StreamWriterV2_commit(v2.w), !.committed = TRUE]
    /\ UNCHANGED <<file_vars, v1, chain, cache, mem>>

\* A reader is constructed on the buffer the writer was given.
V2OpenReader ==
    /\ v2.committed
    /\ v2.r = <<>>
    /\ v2' = [v2 EXCEPT !.r = Base128StreamReaderV2(v2.w.outbuf_, v2.w.size_)]
    /\ UNCHANGED <<file_vars, v1, chain, cache, mem>>

\* reader.next<uint64_t>(), called as many times as values were written.
V2Next ==
    /\ v2.r # <<>>
    /\ ~v2.faulted
    /\ v2.calls < Len(v2.items)
    /\ \E g \in OutOfBufferLoads :
         LET res == Base128StreamReaderV2_next(v2.r, g)
         IN  v2' = [v2 EXCEPT
                      !.r = res.r,
                      !.calls = @ + 1,
                      !.faulted = res.fault,
                      !.out = IF res.fault THEN @ ELSE Append(@, res.value)]
    /\ UNCHANGED <<file_vars, v1, chain, cache, mem>>

NextV2 == V2Put \/ V2Commit \/ V2OpenReader \/ V2Next

SpecV2 == InitV2 /\ [][NextV2]_vars

\* ---------------------------------------------------------- claims C12, C20
\* The buffer was large enough for every put: none threw and none stored a
\* byte outside it.
V2Fits == ~v2.threw /\ ~v2.w.overrun

\* C12: when the values fit into the buffer and have been committed, every
\* call of next() returns, and returns the value of the put at its position.
C12_V2RoundTrip ==
    (v2.committed /\ V2Fits) =>
        /\ Len(v2.out) = v2.calls
        /\ \A k \in DOMAIN v2.out : v2.out[k] = v2.items[k].value

\* max(1, number of significant bytes of v)
SigBytes(v) == IF v = U64Zero THEN 1 ELSE (BitLength(v) + 7) \div 8

\* C20: after commit every integer put lies in the buffer, in the payload of
\* one group, on max(1, significant bytes) consecutive bytes in little-endian
\* order and after the integer put before it; and bit i of the control byte
\* of a group is set exactly when payload byte i is the last byte of one of
\* the integers.
C20_V2GroupLayout ==
    v2.committed =>
        /\ \A k \in DOMAIN v2.items :
             LET it  == v2.items[k]
                 off == (it.at % BLOCK_SIZE) - 1
             IN  /\ it.n = SigBytes(it.value)
                 /\ off >= 0
                 /\ off + it.n <= 8
                 /\ it.at + it.n <= v2.w.size_
                 /\ \A j \in 0..(it.n - 1) :
                      it.at + j < v2.w.size_ => v2.w.outbuf_[it.at + j] = ByteOf(it.value, j)
                 /\ k > 1 => it.at >= v2.items[k - 1].at + v2.items[k - 1].n
        /\ \A c \in 0..(v2.w.size_ - 1) :
             c % BLOCK_SIZE = 0 =>
                 \A i \in 0..7 :
                     ((v2.w.outbuf_[c] \div (2 ^ i)) % 2 = 1) <=>
                         \E k \in DOMAIN v2.items :
                             v2.items[k].at + v2.items[k].n - 1 = c + 1 + i

\* ===================================== Delta -> ZigZag -> RLE -> Base128
\* ---------------------------------------------------------------- bounds
\* Largest number of values written through one DeltaRLEWriter.
MaxChainLen == 3

\* Bytes of buffer per value written: a run length of one byte and a value
\* of at most ten bytes.
BytesPerRun == 11

\* ---------------------------------------------------------- int64_t values
\* a + b + carry on 64 bits, two's complement.
U64AddC(a, b, carry) ==
    LET s1 == a[1] + b[1] + carry
        s2 == a[2] + b[2] + (s1 \div Limb)
        s3 == a[3] + b[3] + (s2 \div Limb)
        s4 == a[4] + b[4] + (s3 \div Limb)
    IN  <<s1 % Limb, s2 % Limb, s3 % Limb, s4 % Limb>>

\* ~v
U64Not(v) == <<(Limb - 1) - v[1], (Limb - 1) - v[2], (Limb - 1) - v[3], (Limb - 1) - v[4]>>

\* a + b and a - b as the machine computes them (they wrap).
I64Add(a, b) == U64AddC(a, b, 0)
I64Sub(a, b) == U64AddC(a, U64Not(b), 1)

\* value << 1
Shl1(v) ==
    LET part(lo, hi) == ((hi * 2) % Limb) + (lo \div (Limb \div 2))
    IN  <<part(0, v[1]), part(v[1], v[2]), part(v[2], v[3]), part(v[3], v[4])>>

\* ZigZagStreamWriter::put: (value << 1) ^ (value >> shift_width); the right
\* shift of the signed value is all ones or all zeros.
zigzag_encode(value) == IF IsNegative(value) THEN U64Not(Shl1(value)) ELSE Shl1(value)

\* ZigZagStreamReader::next: (n >> 1) ^ (-(n & 1)); n is signed, its shift
\* keeps the sign.
zigzag_decode(n) ==
    LET half == Shr(n, 1, IF IsNegative(n) THEN Limb - 1 ELSE 0)
    IN  IF n[1] % 2 = 1 THEN U64Not(half) ELSE half

\* ------------------------------------------------- RLEStreamWriter<int64_t>
\* stream_.put(reps_); stream_.put(prev_): both with TVal = int64_t.  The
\* second put is not made when the first throws.
rle_emit(w, reps, prev) ==
    Only({IF a.status # OK THEN a ELSE Base128StreamWriter_put(a.w, prev, TRUE) :
          a \in {Base128StreamWriter_put(w, U64(reps), TRUE)}})

\* RLEStreamWriter::put(value) on the writer state c (stream w, prev_, reps_).
RLEStreamWriter_put(c, value) ==
    IF value # c.rle_prev
    THEN Only({IF e.status # OK
               THEN [status |-> e.status, c |-> [c EXCEPT !.w = e.w]]
               ELSE [status |-> OK,
                     c |-> [c EXCEPT !.w = e.w, !.rle_prev = value, !.rle_reps = 1]] :
               e \in {IF c.rle_reps # 0 THEN rle_emit(c.w, c.rle_reps, c.rle_prev)
                      ELSE [status |-> OK, w |-> c.w]}})
    ELSE [status |-> OK, c |-> [c EXCEPT !.rle_reps = c.rle_reps + 1]]

\* RLEStreamWriter::commit()
RLEStreamWriter_commit(c) ==
    Only({[status |-> e.status, c |-> [c EXCEPT !.w = e.w]] :
          e \in {rle_emit(c.w, c.rle_reps, c.rle_prev)}})

\* ZigZagStreamWriter::put(value)
ZigZagStreamWriter_put(c, value) == RLEStreamWriter_put(c, zigzag_encode(value))

\* DeltaStreamWriter::put(value): prev_ is assigned after the inner put
\* returned.
DeltaStreamWriter_put(c, value) ==
    Only({IF p.status # OK THEN p ELSE [status |-> OK, c |-> [p.c EXCEPT !.delta_prev = value]] :
          p \in {ZigZagStreamWriter_put(c, I64Sub(value, c.delta_prev))}})

\* DeltaRLEWriter(stream): every layer starts with prev_ = 0, reps_ = 0.
DeltaRLEWriter(w) == [w |-> w, delta_prev |-> U64Zero, rle_prev |-> U64Zero, rle_reps |-> 0]

\* ------------------------------------------------- RLEStreamReader<int64_t>
\* RLEStreamReader::next() on the reader state d (stream r, prev_, reps_).
RLEStreamReader_next(d) ==
    IF d.rle_reps = U64Zero
    THEN Only({IF a.status # OK THEN [status |-> a.status, value |-> U64Zero, d |-> d]
               ELSE Only({IF b.status # OK
                          THEN [status |-> b.status, value |-> U64Zero,
                                d |-> [d EXCEPT !.r = a.r, !.rle_reps = a.value]]
                          ELSE [status |-> OK, value |-> b.value,
                                d |-> [d EXCEPT !.r = b.r, !.rle_prev = b.value,
                                                !.rle_reps = I64Sub(a.value, U64(1))]] :
                          b \in {Base128StreamReader_next(a.r)}}) :
               a \in {Base128StreamReader_next(d.r)}})
    ELSE [status |-> OK, value |-> d.rle_prev,
          d |-> [d EXCEPT !.rle_reps = I64Sub(d.rle_reps, U64(1))]]

\* ZigZagStreamReader::next()
ZigZagStreamReader_next(d) ==
    Only({[n EXCEPT !.value = IF n.status = OK THEN zigzag_decode(n.value) ELSE U64Zero] :
          n \in {RLEStreamReader_next(d)}})

\* DeltaStreamReader::next()
DeltaStreamReader_next(d) ==
    Only({IF n.status # OK THEN n
          ELSE Only({[status |-> OK, value |-> value, d |-> [n.d EXCEPT !.delta_prev = value]] :
                     value \in {I64Add(d.delta_prev, n.value)}}) :
          n \in {ZigZagStreamReader_next(d)}})

\* DeltaRLEReader(stream)
DeltaRLEReader(r) == [r |-> r, delta_prev |-> U64Zero, rle_prev |-> U64Zero, rle_reps |-> U64Zero]

\* ------------------------------------------------------ chain: the actions
\* 2^62 and the minimum int64_t.
I64Big == <<0, 0, 0, Limb \div 4>>
I64Min == <<0, 0, 0, Limb \div 2>>

\* The values a caller writes: small ones of both signs, and ones whose
\* distance to their neighbours is 2^62 or more.
ChainValues == {U64(0), U64(1), U64Max, U64(10), I64Big, I64Min}

\* A DeltaRLEWriter on a Base128StreamWriter whose buffer has room for every
\* sequence a caller may write.
InitChain ==
    /\ NoStore
    /\ chain = [c |-> DeltaRLEWriter(Base128StreamWriter(BytesPerRun * MaxChainLen)),
                xs |-> <<>>, threw |-> FALSE, committed |-> FALSE,
                d |-> <<>>, out |-> <<>>]
    /\ v1 = <<>>
    /\ v2 = <<>>
    /\ cache = <<>>
    /\ mem = <<>>

\* writer.put(value); a call that throws ends the writing.
ChainPut ==
    /\ ~chain.threw
    /\ ~chain.committed
    /\ Len(chain.xs) < MaxChainLen
    /\ \E value \in ChainValues :
         \E p \in {DeltaStreamWriter_put(chain.c, value)} :
           chain' = [chain EXCEPT !.c = p.c,
                                  !.threw = p.status # OK,
                                  !.xs = Append(@, value)]
    /\ UNCHANGED <<file_vars, v1, v2, cache, mem>>

\* writer.commit()
ChainCommit ==
    /\ ~chain.threw
    /\ ~chain.committed
    /\ chain.xs # <<>>
    /\ \E p \in {RLEStreamWriter_commit(chain.c)} :
         chain' = [chain EXCEPT !.c = p.c, !.threw = p.status # OK, !.committed = TRUE]
    /\ UNCHANGED <<file_vars, v1, v2, cache, mem>>

\* A DeltaRLEReader is constructed on the bytes written.
ChainOpenReader ==
    /\ chain.committed
    /\ ~chain.threw
    /\ chain.d = <<>>
    /\ chain' = [chain EXCEPT !.d = DeltaRLEReader(Base128StreamReader(chain.c.w.buf, chain.c.w.pos_))]
    /\ UNCHANGED <<file_vars, v1, v2, cache, mem>>

\* reader.next(), called as many times as values were written.
ChainNext ==
    /\ chain.d # <<>>
    /\ Len(chain.out) < Len(chain.xs)
    /\ \E n \in {DeltaStreamReader_next(chain.d)} :
         chain' = [chain EXCEPT !.d = n.d,
                                !.out = Append(@, [status |-> n.status, value |-> n.value])]
    /\ UNCHANGED <<file_vars, v1, v2, cache, mem>>

NextChain == ChainPut \/ ChainCommit \/ ChainOpenReader \/ ChainNext

SpecChain == InitChain /\ [][NextChain]_vars

\* ------------------------------------------------------------------ claim C13
\* C13: in a buffer with room for every run, no put and no commit of the
\* writer chain fails, and the k-th next() of the reader chain returns the
\* k-th value written.
C13_LayeredRoundTrip ==
    /\ ~chain.threw
    /\ \A k \in DOMAIN chain.out :
         chain.out[k].status = OK /\ chain.out[k].value = chain.xs[k]

\* ================================================================ BlockCache
\* ---------------------------------------------------------------- bounds
\* Largest Nbits of a BlockCache (it has 2^Nbits slots).
MaxBits == 2
\* Number of insert and lookup calls made on one cache.
MaxCacheOps == 3

\* a < b on u64.
U64Less(a, b) ==
    \/ a[4] < b[4]
    \/ (a[4] = b[4] /\ a[3] < b[3])
    \/ (a[4] = b[4] /\ a[3] = b[3] /\ a[2] < b[2])
    \/ (a[4] = b[4] /\ a[3] = b[3] /\ a[2] = b[2] /\ a[1] < b[1])

\* a ^ b on numbers of n bits.
RECURSIVE BitXor(_, _, _)
BitXor(a, b, n) ==
    IF n = 0 THEN 0
    ELSE ((a + b) % 2) + (2 * BitXor(a \div 2, b \div 2, n - 1))

\* hash32(value, bits, seed): (a * value + seed) >> (64 - bits) with
\* a = 2^32 - 1, on u64; a * value is (value << 32) - value.
hash32(value, bits, seed) ==
    LET x == I64Add(I64Sub(<<0, 0, value[1], value[2]>>, <<value[1], value[2], 0, 0>>),
                    U64(seed))
    IN  x[4] \div (2 ^ (16 - bits))

\* hash(value, bits)
hash(value, bits) ==
    LET a == hash32(<<value[1], value[2]>>, bits, 277)
        b == hash32(<<value[3], value[4]>>, bits, 337)
    IN  BitXor(a, b, bits)

\* BlockCache(Nbits): 1 << Nbits null entries.
BlockCache(Nbits) ==
    [block_cache_ |-> [h \in 0..((2 ^ Nbits) - 1) |-> <<>>], bits_ |-> Nbits]

\* The values dist_(gen_) may return: dist_ is constructed as
\* dist_(0, 1 << Nbits), and both ends of a uniform_int_distribution belong
\* to its range.
dist_(C) == 0..(2 ^ C.bits_)

\* block_cache_.at(h) throws std::out_of_range for an h that is no index.
InRange(C, h) == h \in DOMAIN C.block_cache_

\* BlockCache::probe(addr)
probe(C, addr) ==
    LET b == C.block_cache_[hash(addr, C.bits_)]
    IN  IF b # <<>> THEN (IF b[1].addr = addr THEN 2 ELSE 1) ELSE 0

\* use_count() of the copy of an entry made in insert: the cache's own
\* reference, the owners outside the cache, and the copies p1 and p2 (two of
\* them when h1 = h2).
use_count(b, h1, h2) == 1 + b.owners + (IF h1 = h2 THEN 2 ELSE 1)

\* block_cache_.at(h).reset()
reset_slot(C, h) == [C EXCEPT !.block_cache_[h] = <<>>]

\* The eviction of insert for the random indexes h1 and h2, both in range.
evict(C, h1, h2) ==
    LET p1 == C.block_cache_[h1]
        p2 == C.block_cache_[h2]
    IN  IF p1 # <<>> /\ p2 # <<>>
        THEN IF use_count(p1[1], h1, h2) > use_count(p2[1], h1, h2) THEN reset_slot(C, h2)
             ELSE IF use_count(p1[1], h1, h2) < use_count(p2[1], h1, h2) THEN reset_slot(C, h1)
             ELSE IF U64Less(p1[1].addr, p2[1].addr) THEN reset_slot(C, h1)
             ELSE reset_slot(C, h2)
        ELSE C

\* BlockCache::insert(block); h1 and h2 are what dist_(gen_) returns when
\* insert calls it.  The exception of at() leaves the cache as it is.
insert(C, block, h1, h2) ==
    LET pr == probe(C, block.addr)
    IN  IF pr = 2 THEN [status |-> OK, C |-> C]
        ELSE IF pr = 0 /\ (~InRange(C, h1) \/ ~InRange(C, h2))
        THEN [status |-> "out_of_range", C |-> C]
        ELSE LET C2 == IF pr = 0 THEN evict(C, h1, h2) ELSE C
             IN  [status |-> OK,
                  C |-> [C2 EXCEPT !.block_cache_[hash(block.addr, C.bits_)] = <<block>>]]

\* BlockCache::loockup(addr).  p->get_addr() on an empty entry dereferences
\* a null pointer: that is undefined, and either faults or reads something
\* and goes on, after which the null entry is what the call returns.
loockup(C, addr, faults) ==
    LET p == C.block_cache_[hash(addr, C.bits_)]
    IN  IF p = <<>>
        THEN [fault |-> faults, block |-> <<>>]
        ELSE IF p[1].addr # addr THEN [fault |-> FALSE, block |-> <<>>]
        ELSE [fault |-> FALSE, block |-> p]

\* ------------------------------------------------------ cache: the actions
\* Addresses of the blocks a caller caches.  The slot of an address depends
\* on the top bits of its two halves: these fall into slots of their own,
\* onto the slot of another address, and differ from one another in the low
\* bits only.
CacheAddrs ==
    {<<1, 0, 0, 0>>, <<0, Limb \div 2, 0, 0>>, <<1, Limb \div 2, 0, 0>>,
     <<0, 0, 0, Limb \div 2>>, <<0, Limb \div 4, 0, 0>>}

\* A cache of 2^Nbits empty slots.
InitCache ==
    /\ NoStore
    /\ \E Nbits \in 1..MaxBits :
         cache = [C |-> BlockCache(Nbits), ncalls |-> 0, nblocks |-> 0,
                  ret |-> [op |-> "none", arg |-> <<>>, status |-> OK, block |-> <<>>,
                           fault |-> FALSE]]
    /\ v1 = <<>>
    /\ v2 = <<>>
    /\ chain = <<>>
    /\ mem = <<>>

\* insert(block) of a new Block instance with some address and some number
\* of owners besides the cache.
CacheInsert ==
    /\ cache.ncalls < MaxCacheOps
    /\ \E addr \in CacheAddrs, owners \in 0..1, h1 \in dist_(cache.C), h2 \in dist_(cache.C) :
         LET block == [addr |-> addr, id |-> cache.nblocks + 1, owners |-> owners]
             res   == insert(cache.C, block, h1, h2)
         IN  cache' = [cache EXCEPT
                         !.C = res.C,
                         !.ncalls = @ + 1,
                         !.nblocks = @ + 1,
                         !.ret = [op |-> "insert", arg |-> block, status |-> res.status,
                                  block |-> <<>>, fault |-> FALSE]]
    /\ UNCHANGED <<file_vars, v1, v2, chain, mem>>

\* loockup(addr)
CacheLookup ==
    /\ cache.ncalls < MaxCacheOps
    /\ \E addr \in CacheAddrs, faults \in BOOLEAN :
         LET res == loockup(cache.C, addr, faults)
         IN  cache' = [cache EXCEPT
                         !.ncalls = @ + 1,
                         !.ret = [op |-> "lookup", arg |-> addr, status |-> OK,
                                  block |-> res.block, fault |-> res.fault]]
    /\ UNCHANGED <<file_vars, v1, v2, chain, mem>>

NextCache == CacheInsert \/ CacheLookup

SpecCache == InitCache /\ [][NextCache]_vars

\* --------------------------------------------------------- claims C14, C15
\* C14: lookup(a) does not fault; it returns the entry of a's slot when that
\* entry has address a and null otherwise; and no more than 2^N blocks are
\* resident.
C14_LookupReturnsMatchOrNull ==
    /\ cache.ret.op = "lookup" =>
         LET p == cache.C.block_cache_[hash(cache.ret.arg, cache.C.bits_)]
         IN  /\ ~cache.ret.fault
             /\ cache.ret.block = (IF p # <<>> /\ p[1].addr = cache.ret.arg THEN p ELSE <<>>)
             /\ cache.ret.block # <<>> => cache.ret.block[1].addr = cache.ret.arg
    /\ Cardinality({h \in DOMAIN cache.C.block_cache_ : cache.C.block_cache_[h] # <<>>})
         <= 2 ^ cache.C.bits_

\* C15: every insert(b) completes, and a lookup(b.addr) made right after it
\* returns b, or the instance with b's address that was resident before.
C15_InsertThenLookup ==
    [][(cache'.ncalls = cache.ncalls + 1 /\ cache'.ret.op = "insert") =>
         LET b   == cache'.ret.arg
             old == cache.C.block_cache_[hash(b.addr, cache.C.bits_)]
         IN  /\ cache'.ret.status = OK
             /\ \A faults \in BOOLEAN :
                  LET r == loockup(cache'.C, b.addr, faults)
                  IN  /\ ~r.fault
                      /\ r.block = (IF probe(cache.C, b.addr) = 2 THEN old ELSE <<b>>)]_vars

\* ================================================================== MemStore
\* ---------------------------------------------------------------- bounds
\* Number of append_block calls made on one MemStore.
MaxMemAppends == 3

\* static const LogicAddr MEMSTORE_BASE = 619
MEMSTORE_BASE == 619

\* The number of blocks of AKU_BLOCK_SIZE = 4096 bytes a u32 byte offset
\* tells apart: 2^32 / 4096.
OffsetBlocks == 2 ^ 20

\* MemStore(): an empty buffer; write_pos_ and removed_pos_ are 0.  buffer_
\* holds one element per AKU_BLOCK_SIZE bytes appended.
MemStore == [buffer_ |-> <<>>, write_pos_ |-> 0, removed_pos_ |-> 0]

\* MemStore::remove(addr)
MemStore_remove(M, addr) == [M EXCEPT !.removed_pos_ = addr]

\* static_cast<u32>(AKU_BLOCK_SIZE * addr), counted in blocks: the low 20
\* bits of addr.
offset(addr) == addr[1] + (Limb * (addr[2] % (OffsetBlocks \div Limb)))

\* offset + AKU_BLOCK_SIZE, counted in blocks.  offset is a u32; the sum is
\* one too when AKU_BLOCK_SIZE is an int or an enumerator (sum32), and wider
\* when AKU_BLOCK_SIZE is a 64-bit constant.
offset_end(addr, sum32) ==
    IF sum32 THEN (offset(addr) + 1) % OffsetBlocks ELSE offset(addr) + 1

\* MemStore::read_block(addr).  When the wrapped sum lets an offset beyond
\* the buffer through, the copy reads outside buffer_: that is undefined,
\* and `ub` is what comes of it.
MemStore_read_block(M, logic_addr, sum32, ub) ==
    LET addr == I64Sub(logic_addr, U64(MEMSTORE_BASE))
    IN  IF Len(M.buffer_) < offset_end(addr, sum32)
        THEN [status |-> AKU_EBAD_ARG, block |-> <<>>]
        ELSE IF U64Less(addr, U64(M.removed_pos_))
        THEN [status |-> AKU_EBAD_ARG, block |-> <<>>]
        ELSE IF offset(addr) + 1 \notin DOMAIN M.buffer_
        THEN ub
        ELSE [status |-> AKU_SUCCESS,
              block |-> <<[addr |-> I64Add(addr, U64(MEMSTORE_BASE)),
                           data |-> M.buffer_[offset(addr) + 1]]>>]

\* MemStore::append_block(data); callback is the address append_callback_
\* is called with.
MemStore_append_block(M, data) ==
    [status |-> AKU_SUCCESS,
     addr |-> U64(M.write_pos_ + MEMSTORE_BASE),
     callback |-> U64(M.write_pos_ + MEMSTORE_BASE),
     M |-> [M EXCEPT !.buffer_ = Append(@, data), !.write_pos_ = @ + 1]]

\* A lookup that takes the address as a position.
exists_zero_based(M, logic_addr) == U64Less(logic_addr, U64(M.write_pos_))

\* MemStore::exists(addr)
MemStore_exists(M, logic_addr) ==
    U64Less(I64Sub(logic_addr, U64(MEMSTORE_BASE)), U64(M.write_pos_))

\* --------------------------------------------------- MemStore: the actions
\* Contents of an appended block.
MemData == {"x", "y"}

\* What a read outside buffer_ may come to: a fault, or a block of whatever
\* the memory holds.
OutOfBufferReads(addr) ==
    {[status |-> "fault", block |-> <<>>],
     [status |-> AKU_SUCCESS, block |-> <<[addr |-> addr, data |-> "garbage"]>>]}

\* Addresses handed to read_block and exists: those append_block returns,
\* the ones below the base, beyond the last append, and the ones whose byte
\* offset wraps.
MemAddrs ==
    {U64(MEMSTORE_BASE + k) : k \in 0..MaxMemAppends}
      \cup {U64Zero, U64(1), U64(MEMSTORE_BASE - 2), U64(MEMSTORE_BASE - 1), U64Max,
            I64Add(U64(MEMSTORE_BASE), <<0, 16, 0, 0>>),
            I64Add(U64(MEMSTORE_BASE + 1), <<0, 16, 0, 0>>),
            I64Add(U64(MEMSTORE_BASE), <<0, 0, 1, 0>>)}

\* A new MemStore.  sum32 is the width of `offset + AKU_BLOCK_SIZE`, which
\* the declaration of AKU_BLOCK_SIZE decides.
InitMem ==
    /\ NoStore
    /\ \E sum32 \in BOOLEAN :
         mem = [M |-> MemStore, sum32 |-> sum32, returned |-> <<>>,
                ret |-> [op |-> "none", arg |-> <<>>, status |-> AKU_SUCCESS,
                         addr |-> <<>>, block |-> <<>>, exists |-> FALSE]]
    /\ v1 = <<>>
    /\ v2 = <<>>
    /\ chain = <<>>
    /\ cache = <<>>

MemCalled(op, arg, status, addr, block, ex) ==
    [op |-> op, arg |-> arg, status |-> status, addr |-> addr, block |-> block,
     exists |-> ex]

\* append_block(data)
MemAppend ==
    /\ Len(mem.returned) < MaxMemAppends
    /\ \E data \in MemData :
         LET res == MemStore_append_block(mem.M, data)
         IN  mem' = [mem EXCEPT
                       !.M = res.M,
                       !.returned = Append(@, res.addr),
                       !.ret = MemCalled("append", data, res.status, res.addr, <<>>, FALSE)]
    /\ UNCHANGED <<file_vars, v1, v2, chain, cache>>

\* read_block(addr)
MemRead ==
    /\ \E addr \in MemAddrs : \E ub \in OutOfBufferReads(addr) :
         LET res == MemStore_read_block(mem.M, addr, mem.sum32, ub)
         IN  mem' = [mem EXCEPT
                       !.ret = MemCalled("read", addr, res.status, <<>>, res.block, FALSE)]
    /\ UNCHANGED <<file_vars, v1, v2, chain, cache>>

\* exists(addr)
MemExists ==
    /\ \E addr \in MemAddrs :
         mem' = [mem EXCEPT
                   !.ret = MemCalled("exists", addr, AKU_SUCCESS, <<>>, <<>>,
                                     MemStore_exists(mem.M, addr))]
    /\ UNCHANGED <<file_vars, v1, v2, chain, cache>>

\* remove(addr)
MemRemove ==
    /\ \E addr \in 0..MaxMemAppends :
         mem' = [mem EXCEPT
                   !.M = MemStore_remove(mem.M, addr),
                   !.ret = MemCalled("remove", addr, AKU_SUCCESS, <<>>, <<>>, FALSE)]
    /\ UNCHANGED <<file_vars, v1, v2, chain, cache>>

NextMem == MemAppend \/ MemRead \/ MemExists \/ MemRemove

SpecMem == InitMem /\ [][NextMem]_vars

\* --------------------------------------------------------- claims C16, C17
\* C16: the k-th append_block (counting from 0) returns MEMSTORE_BASE + k,
\* which is not below MEMSTORE_BASE, and exists(a) is false for every
\* a < MEMSTORE_BASE.
C16_MemStoreBaseOffset ==
    /\ \A k \in DOMAIN mem.returned :
         /\ mem.returned[k] = U64(MEMSTORE_BASE + (k - 1))
         /\ ~U64Less(mem.returned[k], U64(MEMSTORE_BASE))
    /\ \A a \in MemAddrs : U64Less(a, U64(MEMSTORE_BASE)) => ~MemStore_exists(mem.M, a)
    /\ (mem.ret.op = "exists" /\ U64Less(mem.ret.arg, U64(MEMSTORE_BASE))) => ~mem.ret.exists

\* C16 witness: blocks have been appended and exists has been asked about an
\* address below the base.
C16_Witness ==
    /\ Len(mem.returned) >= 2
    /\ mem.ret.op = "exists"
    /\ U64Less(mem.ret.arg, U64(MEMSTORE_BASE))
    /\ mem.ret.arg # U64Zero

\* C17: read_block(a) succeeds only for an address a that append_block has
\* returned and that is not below the remove watermark, and then returns the
\* bytes appended under a; for every other address it fails with BadArg.
C17_MemStoreRead ==
    mem.ret.op = "read" =>
      LET a  == mem.ret.arg
          ks == {k \in DOMAIN mem.returned : mem.returned[k] = a}
      IN  IF ks # {} /\ \A k \in ks : k - 1 >= mem.M.removed_pos_
          THEN /\ mem.ret.status = AKU_SUCCESS
               /\ \A k \in ks : mem.ret.block = <<[addr |-> a, data |-> mem.M.buffer_[k]]>>
          ELSE mem.ret.status = AKU_EBAD_ARG

\* ======================================================= further V2 claims
\* ------------------------------------------------------------- claim C21
\* The three values 0x01, 0x0100 and 0x010000 have been put, in this order
\* and nothing else, into a buffer that holds one group, and committed.
E2Written ==
    /\ v2.committed
    /\ v2.nput = 3
    /\ v2.w.size_ >= BLOCK_SIZE
    /\ [k \in DOMAIN v2.items |-> v2.items[k].value] = <<U64(1), U64(256), U64(65536)>>

\* The payload of the first group.
E2Payload == [i \in 1..8 |-> v2.w.outbuf_[i]]

\* C21, as the code has it: the three values fill one group whose control
\* byte is 0b00100101 (bits 0, 2 and 5, the last bytes of the values) and
\* whose payload is [0x01, 0x00, 0x01, 0x00, 0x00, 0x01] followed by the two
\* bytes the buffer held before, 0 and 0.
C21_E2ControlByte ==
    E2Written =>
        /\ v2.w.ctrl_index_ = 0
        /\ v2.w.outbuf_[0] = (2 ^ 0) + (2 ^ 2) + (2 ^ 5)
        /\ E2Payload = <<1, 0, 1, 0, 0, 1, 0, 0>>

\* C21 witness: the scenario has been written and committed.
C21_Witness == E2Written /\ v2.w.pos_ = 7

\* C21 as stated: the control byte is 0b00101001 (bits 0, 3 and 5).
C21_E2AsStated ==
    E2Written =>
        /\ v2.w.outbuf_[0] = (2 ^ 0) + (2 ^ 3) + (2 ^ 5)
        /\ E2Payload = <<1, 0, 1, 0, 0, 1, 0, 0>>


\* -------------------------------------------------------- claims C27, C28
\* C27: put and commit store to no byte index at or beyond the size of the
\* buffer; a value that does not fit makes put throw instead.
C27_V2WriterStaysInBuffer == v2.w.overrun = FALSE

\* C28: when the values written fit into the buffer and next() is called as
\* many times as values were written, no call loads a byte at or beyond the
\* size of the buffer, the control byte fetched by _next_block included.
C28_V2ReaderStaysInBuffer ==
    [][(V2Fits /\ v2.r # <<>> /\ v2'.calls = v2.calls + 1) =>
         \A g \in OutOfBufferLoads : ~Base128StreamReaderV2_next(v2.r, g).oob]_vars


\* ------------------------------------------ Base128StreamWriterV2::put_raw
\* Largest buffer handed to a V2 writer that takes raw values.
MaxRawBuf == 8

\* Base128StreamWriterV2::put_raw(unsigned char | uint32_t | uint64_t); sz is
\* sizeof(value).  The uint32_t overload stores through a uint64_t pointer,
\* as the uint64_t one does: eight bytes, the upper four of them zero.
Base128StreamWriterV2_put_raw(w, value, sz) ==
    IF (sz = 1 /\ w.pos_ = w.size_) \/ (sz > 1 /\ w.pos_ + sz > w.size_)
    THEN [status |-> StreamOutOfBounds, w |-> w]
    ELSE LET width == IF sz = 1 THEN 1 ELSE 8
         IN  [status |-> OK,
              w |-> [w EXCEPT !.outbuf_ = StoreBytes(@, w.pos_, value, width),
                              !.overrun = @ \/ w.pos_ + width > w.size_,
                              !.pos_ = w.pos_ + sz]]

\* A writer on a buffer of the caller's, which holds whatever the caller
\* left in it.
InitV2Raw ==
    /\ NoStore
    /\ \E size \in 1..MaxRawBuf :
         \E bytes \in [0..(size - 1) -> {0, 255}] :
           v2 = [w |-> [Base128StreamWriterV2(size) EXCEPT !.outbuf_ = bytes],
                 nraw |-> 0,
                 ret |-> [sz |-> 0, value |-> U64Zero, status |-> OK]]
    /\ v1 = <<>>
    /\ chain = <<>>
    /\ cache = <<>>
    /\ mem = <<>>

\* writer.put_raw(value) for each of its three overloads.
V2PutRaw ==
    /\ v2.nraw < MaxRawBuf
    /\ \E sz \in {1, 4, 8} :
         \E res \in {Base128StreamWriterV2_put_raw(v2.w, RawValue(sz), sz)} :
           v2' = [w |-> res.w,
                  nraw |-> v2.nraw + 1,
                  ret |-> [sz |-> sz, value |-> RawValue(sz), status |-> res.status]]
    /\ UNCHANGED <<file_vars, v1, chain, cache, mem>>

SpecV2Raw == InitV2Raw /\ [][V2PutRaw]_vars

\* C24: a put_raw of a 32-bit value that returns has stored the value's four
\* bytes at [pos, pos + 4), moved pos on by 4, and changed no other byte,
\* neither of the buffer nor behind it.
C24_V2RawWritesExactWidth ==
    [][(v2'.nraw = v2.nraw + 1 /\ v2'.ret.sz = 4 /\ v2'.ret.status = OK) =>
         /\ v2'.w.pos_ = v2.w.pos_ + 4
         /\ \A i \in DOMAIN v2.w.outbuf_ :
              v2'.w.outbuf_[i] = IF i >= v2.w.pos_ /\ i < v2.w.pos_ + 4
                                 THEN ByteOf(v2'.ret.value, i - v2.w.pos_)
                                 ELSE v2.w.outbuf_[i]
         /\ v2'.w.overrun = v2.w.overrun]_vars


\* ------------------------------------------------------------- claim C22
\* The values the RLE layer of the chain is given: the zig-zag codes of the
\* differences of the values written.
RleInputs ==
    [k \in DOMAIN chain.xs |->
       zigzag_encode(I64Sub(chain.xs[k], IF k = 1 THEN U64Zero ELSE chain.xs[k - 1]))]

\* The (run_length, value) pairs of the maximal runs of s, flattened, with
\* the run that ends s having n values before s and the value v.
RECURSIVE RunPairs(_, _, _)
RunPairs(s, n, v) ==
    IF s = <<>> THEN <<U64(n), v>>
    ELSE IF Head(s) = v THEN RunPairs(Tail(s), n + 1, v)
    ELSE <<U64(n), v>> \o RunPairs(Tail(s), 1, Head(s))

\* Every integer of the underlying stream from r on.
RECURSIVE StreamInts(_)
StreamInts(r) ==
    IF r.pos_ >= r.end_ THEN <<>>
    ELSE Only({IF a.status # OK THEN <<a.status>> ELSE <<a.value>> \o StreamInts(a.r) :
               a \in {Base128StreamReader_next(r)}})

\* What n calls of RLEStreamReader::next return from d on.
RECURSIVE RleOutputs(_, _)
RleOutputs(d, n) ==
    IF n = 0 THEN <<>>
    ELSE Only({IF a.status # OK THEN <<a.status>> ELSE <<a.value>> \o RleOutputs(a.d, n - 1) :
               a \in {RLEStreamReader_next(d)}})

\* C22: every put and the commit return; the stream then holds one
\* (run_length, value) pair per maximal run of equal values, in input order,
\* whose run lengths add up to the number of puts, and RLEStreamReader::next
\* returns the values that were put.
C22_RleFraming ==
    /\ ~chain.threw
    /\ chain.committed =>
         LET r == Base128StreamReader(chain.c.w.buf, chain.c.w.pos_)
         IN  /\ StreamInts(r) = RunPairs(Tail(RleInputs), 1, Head(RleInputs))
             /\ RleOutputs(DeltaRLEReader(r), Len(chain.xs)) = RleInputs


\* ------------------------------------------------------ claims C23, C26
\* C23: insert(block) leaves the cache as it is on a probe hit; on a miss it
\* stores the block in the slot of its hash and changes no other slot; on a
\* collision it stores the block in the slot of its hash and may clear
\* other slots.
C23_InsertFrame ==
    [][(cache'.ncalls = cache.ncalls + 1 /\ cache'.ret.op = "insert") =>
         LET b   == cache'.ret.arg
             h   == hash(b.addr, cache.C.bits_)
             pr  == probe(cache.C, b.addr)
             old == cache.C.block_cache_
             new == cache'.C.block_cache_
         IN  /\ pr = 2 => new = old
             /\ pr = 0 => new = [old EXCEPT ![h] = <<b>>]
             /\ pr = 1 => /\ new[h] = <<b>>
                          /\ \A s \in DOMAIN old : s # h => new[s] \in {old[s], <<>>}]_vars

\* C26: the slot of every address lies in 0..2^N-1, and no call has failed
\* on a slot index outside this range.
C26_SlotIndexesInRange ==
    /\ \A a \in CacheAddrs : hash(a, cache.C.bits_) \in 0..((2 ^ cache.C.bits_) - 1)
    /\ cache.ret.status # "out_of_range"


\* ------------------------------------------------------------- claim C25
\* C25: closing the store and opening it again changes nothing for the
\* appends that follow: the next append_block returns the same status and
\* address, and leaves the same meta-volume, volumes and current volume, as
\* it would have on the store that was not re-opened.
C25_ReopenTransparency ==
    [][(ret'.op = "open" /\ ~reopened) =>
         \A io \in BOOLEAN :
           LET Fa == append_block(Store, NewBlock, io)
               Fb == append_block(Store', NewBlock, io)
           IN  /\ Fb.status = Fa.status
               /\ Fb.addr = Fa.addr
               /\ Fb.S.current_volume = Fa.S.current_volume
               /\ Fb.S.meta = Fa.S.meta
               /\ Fb.S.volumes = Fa.S.volumes]_vars

====
